---- MODULE Spec2Model ----
(***************************************************************************)
(* Model of moka's ValueInitializer (src/sync/value_initializer.rs): the   *)
(* single-flight coordinator behind get_with / optionally_get_with /       *)
(* try_get_with (try_init_or_read) and and_upsert_with / and_compute_with  *)
(* / and_try_compute_with (try_compute).                                   *)
(*                                                                         *)
(* Every thread runs one call at a time.  A call is cut into steps at the  *)
(* points where it touches shared memory: the waiter map, the cache, and   *)
(* the RwLock of a waiter.                                                 *)
(***************************************************************************)
EXTENDS Integers, FiniteSets, Sequences, TLC

\* ------------------------------------------------------------------ bounds
NumThreads == 2
MaxVal == 2

\* const MAX_RETRIES: usize = 200;
MAX_RETRIES == 200

Threads == 1..NumThreads
Keys == {1}
Values == 1..MaxVal
Errors == {1}

\* Option::None for a value, and "no waiter" (Option<Waiter<V>>::None)
NoValue == 0
NoWaiter == 0

\* ------------------------------------------------------- TypeId call-shapes
type_id_for_get_with == "unit"
type_id_for_optionally_get_with == "OptionallyNone"
type_id_for_try_get_with == "E"
type_id_ComputeNone == "ComputeNone"

InitTypeIds ==
    {type_id_for_get_with, type_id_for_optionally_get_with, type_id_for_try_get_with}

\* ------------------------------------------------------------- WaiterValue
\* enum WaiterValue<V> { Computing, Ready(Result<V, ErrorObject>), ReadyNone,
\*                       InitClosurePanicked }
\* An ErrorObject is an Arc: `e` is the error it holds, `by` the thread whose
\* call allocated it (its identity as a shared object).
Computing == [st |-> "Computing", v |-> NoValue, e |-> 0, by |-> 0]
ReadyOk(v) == [st |-> "ReadyOk", v |-> v, e |-> 0, by |-> 0]
ReadyErr(e, by) == [st |-> "ReadyErr", v |-> NoValue, e |-> e, by |-> by]
ReadyNone == [st |-> "ReadyNone", v |-> NoValue, e |-> 0, by |-> 0]
InitClosurePanicked == [st |-> "InitClosurePanicked", v |-> NoValue, e |-> 0, by |-> 0]

\* ------------------------------------------------ InitResult, ComputeResult
NoResult == [r |-> "none", v |-> NoValue, e |-> 0, by |-> 0]
Initialized(v) == [r |-> "Initialized", v |-> v, e |-> 0, by |-> 0]
ReadExisting(v) == [r |-> "ReadExisting", v |-> v, e |-> 0, by |-> 0]
InitErr(e, by) == [r |-> "InitErr", v |-> NoValue, e |-> e, by |-> by]
Inserted(v) == [r |-> "Inserted", v |-> v, e |-> 0, by |-> 0]
Updated(v) == [r |-> "Updated", v |-> v, e |-> 0, by |-> 0]
Removed(v) == [r |-> "Removed", v |-> v, e |-> 0, by |-> 0]
Nop(v) == [r |-> "Nop", v |-> v, e |-> 0, by |-> 0]
EvalErr(e) == [r |-> "EvalErr", v |-> NoValue, e |-> e, by |-> 0]
\* A call that ends by unwinding returns nothing; `r` names the panic.
ClosurePanic == [r |-> "ClosurePanic", v |-> NoValue, e |-> 0, by |-> 0]
TooManyRetries == [r |-> "TooManyRetries", v |-> NoValue, e |-> 0, by |-> 0]
UnexpectedState == [r |-> "UnexpectedState", v |-> NoValue, e |-> 0, by |-> 0]

\* ------------------------------------------------------ closures' raw output
\* O of try_init_or_read: V (get_with), Option<V> (optionally_get_with),
\* Result<V, E> (try_get_with).  "panic" is the closure unwinding.
Raw(shape, v, e) == [shape |-> shape, v |-> v, e |-> e]
Panic == Raw("panic", NoValue, 0)

InitOutputs(type_id) ==
    IF type_id = type_id_for_get_with
        THEN {Raw("V", v, 0) : v \in Values}
    ELSE IF type_id = type_id_for_optionally_get_with
        THEN {Raw("Some", v, 0) : v \in Values} \cup {Raw("None", NoValue, 0)}
    ELSE {Raw("Ok", v, 0) : v \in Values} \cup {Raw("Err", NoValue, e) : e \in Errors}

\* Result<V, E>
Ok(v) == [ok |-> TRUE, v |-> v, e |-> 0]
Err(e) == [ok |-> FALSE, v |-> NoValue, e |-> e]

\* fn post_init_for_get_with(value: V) -> Result<V, ()>
post_init_for_get_with(o) == Ok(o.v)

\* fn post_init_for_optionally_get_with(value: Option<V>) -> Result<V, Arc<OptionallyNone>>
\* (the OptionallyNone error is written 0)
post_init_for_optionally_get_with(o) == IF o.shape = "Some" THEN Ok(o.v) ELSE Err(0)

\* fn post_init_for_try_get_with<E>(result: Result<V, E>) -> Result<V, E>
post_init_for_try_get_with(o) == IF o.shape = "Ok" THEN Ok(o.v) ELSE Err(o.e)

\* The post_init a caller passes along with each type_id.
post_init(type_id, o) ==
    IF type_id = type_id_for_get_with THEN post_init_for_get_with(o)
    ELSE IF type_id = type_id_for_optionally_get_with
        THEN post_init_for_optionally_get_with(o)
    ELSE post_init_for_try_get_with(o)

\* compute::Op<V> { Nop, Put(V), Remove }
OpNop == [op |-> "Nop", v |-> NoValue]
OpPut(v) == [op |-> "Put", v |-> v]
OpRemove == [op |-> "Remove", v |-> NoValue]
Ops == {OpNop, OpRemove} \cup {OpPut(v) : v \in Values}

\* Result<compute::Op<V>, E>
OkOp(op) == [ok |-> TRUE, op |-> op, e |-> 0]
ErrOp(e) == [ok |-> FALSE, op |-> OpNop, e |-> e]

\* O of try_compute: V (and_upsert_with), Op<V> (and_compute_with),
\* Result<Op<V>, E> (and_try_compute_with).
CRaw(shape, op, e) == [shape |-> shape, op |-> op, e |-> e]
CPanic == CRaw("panic", OpNop, 0)
ComputeApis == {"upsert_with", "compute_with", "try_compute_with"}
ComputeOutputs(api) ==
    IF api = "upsert_with" THEN {CRaw("V", OpPut(v), 0) : v \in Values}
    ELSE IF api = "compute_with" THEN {CRaw("Op", op, 0) : op \in Ops}
    ELSE {CRaw("Ok", op, 0) : op \in Ops} \cup {CRaw("Err", OpNop, e) : e \in Errors}

\* fn post_init_for_upsert_with(value: V) -> Result<compute::Op<V>, ()>
post_init_for_upsert_with(o) == OkOp(OpPut(o.op.v))

\* fn post_init_for_compute_with(op: compute::Op<V>) -> Result<compute::Op<V>, ()>
post_init_for_compute_with(o) == OkOp(o.op)

\* fn post_init_for_try_compute_with<E>(op: Result<Op<V>, E>) -> Result<Op<V>, E>
post_init_for_try_compute_with(o) == IF o.shape = "Ok" THEN OkOp(o.op) ELSE ErrOp(o.e)

compute_post_init(api, o) ==
    IF api = "upsert_with" THEN post_init_for_upsert_with(o)
    ELSE IF api = "compute_with" THEN post_init_for_compute_with(o)
    ELSE post_init_for_try_compute_with(o)

\* ---------------------------------------------------------- waiter registry
\* waiters: SegmentedHashMap<(Arc<K>, TypeId), Waiter<V>, S>, kept as the set
\* of its entries.  A Waiter is named by the thread whose call created it.
WEntry(w_key, waiter) == [w_key |-> w_key, waiter |-> waiter]


\* waiter_key_hash that leaves the type id out of the registry key.
waiter_key_hash_KeyOnly(c_key, type_id) == <<c_key, type_id_for_get_with>>

\* fn waiter_key_hash(&self, c_key, type_id) -> ((Arc<K>, TypeId), u64)
\* (the hash only picks the segment; the key decides equality)
waiter_key_hash(c_key, type_id) == <<c_key, type_id>>

\* SegmentedHashMap::insert_if_not_present: None when the entry was inserted,
\* else the waiter already there (the map is left as it was).
insert_if_not_present(map, w_key, waiter) ==
    IF \E en \in map : en.w_key = w_key
        THEN [map |-> map,
              existing |-> (CHOOSE en \in map : en.w_key = w_key).waiter]
        ELSE [map |-> map \cup {WEntry(w_key, waiter)}, existing |-> NoWaiter]

\* SegmentedHashMap::remove(hash, |k| k == &w_key)
map_remove(map, w_key) == {en \in map : en.w_key # w_key}

\* fn try_insert_waiter(&self, w_key, w_hash, waiter) -> Option<Waiter<V>>
try_insert_waiter(map, w_key, waiter) == insert_if_not_present(map, w_key, waiter)

\* fn remove_waiter(&self, w_key, w_hash)
remove_waiter(map, w_key) == map_remove(map, w_key)

\* --------------------------------------------------------------------- state
VARIABLES
    waiters,    \* the registry: a set of WEntry
    cache,      \* the cache behind get / insert / GetOrInsert: Keys -> value
    slot,       \* slot[t]: WaiterValue of the waiter created by t's call
    wlock,      \* wlock[t]: t holds the write lock of its waiter
    pc,         \* pc[t]: where t's call stands
    arg,        \* arg[t]: the arguments of t's call
    existing,   \* existing[t]: the existing_waiter t got from try_insert_waiter
    retries,    \* retries[t]: the local `retries`
    entry,      \* entry[t]: maybe_entry / maybe_value / entry_existed of try_compute
    result,     \* result[t]: what t's call returns (set when it is decided)
    ran,        \* ran[t]: how many times t's call invoked its closure
    cache0,     \* the cache as it was before the first call (never changes)
    after_panic \* after_panic[t]: t's call began after a call for the same
                \* (key, type_id) had ended with its closure's panic

vars == <<waiters, cache, slot, wlock, pc, arg, existing, retries, entry, result, ran, cache0, after_panic>>

\* The cache starts empty or holding a value; values are only ever copied, so
\* which value it holds is immaterial.
InitialValue == CHOOSE v \in Values : TRUE

NoArg == [key |-> 0, type_id |-> "none"]
NoExisting == [owner |-> NoWaiter, released |-> FALSE, val |-> Computing]
NoEntry == [maybe_entry |-> NoValue, maybe_value |-> NoValue, entry_existed |-> FALSE]

Init ==
    /\ waiters = {}
    /\ cache \in [Keys -> {NoValue, InitialValue}]
    /\ cache0 = cache
    /\ after_panic = [t \in Threads |-> FALSE]
    /\ slot = [t \in Threads |-> Computing]
    /\ wlock = [t \in Threads |-> FALSE]
    /\ pc = [t \in Threads |-> "idle"]
    /\ arg = [t \in Threads |-> NoArg]
    /\ existing = [t \in Threads |-> NoExisting]
    /\ retries = [t \in Threads |-> 0]
    /\ entry = [t \in Threads |-> NoEntry]
    /\ result = [t \in Threads |-> NoResult]
    /\ ran = [t \in Threads |-> 0]

\* ------------------------------------------------------ the cache (GetOrInsert)
\* fn get_entry(&self, key, hash) -> Option<Entry<K, V>>; also the `get` closure
cache_get_entry(c, key) == c[key]

\* fn insert(&self, key, hash, value); also the `insert` closure
cache_insert(c, key, value) == [c EXCEPT ![key] = value]

\* fn remove(&self, key, hash) -> Option<V>
cache_remove(c, key) == [c EXCEPT ![key] = NoValue]

\* ------------------------------------------------------------- RwLock, Arc
\* existing_waiter.read(): blocks while the waiter's owner holds the write lock.
\* A waiter whose creator's call has ended (`released`) is never written again;
\* the reference then carries the value it was left with.
CanRead(ref) == IF ref.released THEN TRUE ELSE ~wlock[ref.owner]
WaiterValueOf(ref) == IF ref.released THEN ref.val ELSE slot[ref.owner]

\* The end of a call's stack frame: `lock` (the write guard on the call's own
\* waiter) is dropped, on return and on unwinding alike.
DropLock(t) ==
    /\ wlock' = [wlock EXCEPT ![t] = FALSE]
    /\ existing' = [f \in Threads |->
                      IF f # t /\ existing[f].owner = t /\ ~existing[f].released
                          THEN [owner |-> t, released |-> TRUE, val |-> slot[t]]
                          ELSE existing[f]]

\* Some call for w_key has ended by re-raising its closure's panic.
PanicEndedFor(w_key) ==
    \E p \in Threads :
        /\ pc[p] = "done" /\ result[p] = ClosurePanic
        /\ waiter_key_hash(arg[p].key, arg[p].type_id) = w_key

\* ------------------------------------------------ registration (both calls)
\* Register with the `else { break }` arm taken whatever try_insert_waiter returns.
Register_AlwaysInserted(t, w_key, inserted, found) ==
    LET res == try_insert_waiter(waiters, w_key, t) IN
    /\ waiters' = res.map
    /\ pc' = [pc EXCEPT ![t] = inserted]
    /\ UNCHANGED existing

\* loop { let Some(existing_waiter) = self.try_insert_waiter(w_key.clone(), w_hash,
\*        &waiter) else { break /* Inserted */ }; .. }
Register(t, w_key, inserted, found) ==
    LET res == try_insert_waiter(waiters, w_key, t) IN
    /\ waiters' = res.map
    /\ IF res.existing = NoWaiter
         THEN /\ pc' = [pc EXCEPT ![t] = inserted]
              /\ UNCHANGED existing
         ELSE /\ pc' = [pc EXCEPT ![t] = found]
              /\ existing' = [existing EXCEPT ![t] =
                     [owner |-> res.existing, released |-> FALSE, val |-> Computing]]

\* --------------------------------------------------------- try_init_or_read
\* IR_Begin that registers the new waiter without holding its write lock.
IR_Begin_Unlocked(t, key, type_id) ==
    /\ pc[t] = "idle"
    /\ arg' = [arg EXCEPT ![t] = [key |-> key, type_id |-> type_id]]
    /\ slot' = [slot EXCEPT ![t] = Computing]
    /\ wlock' = [wlock EXCEPT ![t] = FALSE]
    /\ retries' = [retries EXCEPT ![t] = 0]
    /\ Register(t, waiter_key_hash(key, type_id), "ir_get", "ir_read")
    /\ after_panic' = [after_panic EXCEPT ![t] = PanicEndedFor(waiter_key_hash(key, type_id))]
    /\ UNCHANGED <<cache, entry, result, ran, cache0>>

\* The call begins: let mut retries = 0; let waiter = TrioArc::new(RwLock::new(
\* WaiterValue::Computing)); let mut lock = waiter.write(); and the first pass
\* through the head of the loop.  (The new waiter and its lock are private to
\* the call until try_insert_waiter publishes them.)
IR_Begin(t, key, type_id) ==
    /\ pc[t] = "idle"
    /\ arg' = [arg EXCEPT ![t] = [key |-> key, type_id |-> type_id]]
    /\ slot' = [slot EXCEPT ![t] = Computing]
    /\ wlock' = [wlock EXCEPT ![t] = TRUE]
    /\ retries' = [retries EXCEPT ![t] = 0]
    /\ Register(t, waiter_key_hash(key, type_id), "ir_get", "ir_read")
    /\ after_panic' = [after_panic EXCEPT ![t] = PanicEndedFor(waiter_key_hash(key, type_id))]
    /\ UNCHANGED <<cache, entry, result, ran, cache0>>

\* The head of the loop again, after `continue`.
IR_TryInsert(t) ==
    /\ pc[t] = "ir_insert"
    /\ Register(t, waiter_key_hash(arg[t].key, arg[t].type_id), "ir_get", "ir_read")
    /\ UNCHANGED <<cache, slot, wlock, arg, retries, entry, result, ran, cache0, after_panic>>

\* retry_allowed with the bound taken inclusively.
retry_allowed_Inclusive(n) == n <= MAX_RETRIES

\* assert!(retries < MAX_RETRIES, "Too many retries. ..") after retries += 1
retry_allowed(n) == n < MAX_RETRIES

\* read_result that hands the value back as if this call had initialized it.
read_result_AsInitialized(w) ==
    IF w.st = "ReadyOk" THEN Initialized(w.v) ELSE InitErr(w.e, w.by)

\* What a follower returns for a waiter that holds Ready:
\*   Ready(Ok(value)) => return ReadExisting(value.clone()),
\*   Ready(Err(e)) => return InitErr(Arc::clone(e).downcast().unwrap()),
read_result(w) ==
    IF w.st = "ReadyOk" THEN ReadExisting(w.v) ELSE InitErr(w.e, w.by)

\* let waiter_result = existing_waiter.read(); match &*waiter_result { .. }
IR_Read(t) ==
    /\ pc[t] = "ir_read"
    /\ CanRead(existing[t])
    /\ LET w == WaiterValueOf(existing[t]) IN
       IF w.st = "InitClosurePanicked" /\ retry_allowed(retries[t] + 1)
         THEN \* retries += 1; continue
              /\ retries' = [retries EXCEPT ![t] = retries[t] + 1]
              /\ pc' = [pc EXCEPT ![t] = "ir_insert"]
              /\ UNCHANGED <<wlock, existing, result>>
         ELSE /\ pc' = [pc EXCEPT ![t] = "done"]
              /\ DropLock(t)
              /\ IF w.st \in {"ReadyOk", "ReadyErr"}
                   THEN /\ result' = [result EXCEPT ![t] = read_result(w)]
                        /\ UNCHANGED retries
                 ELSE IF w.st = "InitClosurePanicked"
                   THEN \* the assertion fails
                        /\ retries' = [retries EXCEPT ![t] = retries[t] + 1]
                        /\ result' = [result EXCEPT ![t] = TooManyRetries]
                 ELSE \* Computing | ReadyNone => panic!("Got unexpected state ..")
                        /\ result' = [result EXCEPT ![t] = UnexpectedState]
                        /\ UNCHANGED retries
    /\ UNCHANGED <<waiters, cache, slot, arg, entry, ran, cache0, after_panic>>


\* IR_Get that returns the value its re-check found without recording it in
\* the waiter.
IR_Get_SlotNotSet(t) ==
    /\ pc[t] = "ir_get"
    /\ LET value == cache_get_entry(cache, arg[t].key) IN
       IF value # NoValue
         THEN /\ result' = [result EXCEPT ![t] = ReadExisting(value)]
              /\ pc' = [pc EXCEPT ![t] = "ir_remove"]
              /\ UNCHANGED <<ran, slot>>
         ELSE /\ pc' = [pc EXCEPT ![t] = "ir_init"]
              /\ ran' = [ran EXCEPT ![t] = ran[t] + 1]
              /\ UNCHANGED <<slot, result>>
    /\ UNCHANGED <<waiters, cache, wlock, arg, existing, retries, entry, cache0, after_panic>>

\* IR_Get that takes its waiter out of the registry before it enters init.
IR_Get_RemoveEarly(t) ==
    /\ pc[t] = "ir_get"
    /\ LET value == cache_get_entry(cache, arg[t].key) IN
       IF value # NoValue
         THEN /\ slot' = [slot EXCEPT ![t] = ReadyOk(value)]
              /\ result' = [result EXCEPT ![t] = ReadExisting(value)]
              /\ pc' = [pc EXCEPT ![t] = "ir_remove"]
              /\ UNCHANGED <<ran, waiters>>
         ELSE /\ pc' = [pc EXCEPT ![t] = "ir_init"]
              /\ ran' = [ran EXCEPT ![t] = ran[t] + 1]
              /\ waiters' = remove_waiter(waiters, waiter_key_hash(arg[t].key, arg[t].type_id))
              /\ UNCHANGED <<slot, result>>
    /\ UNCHANGED <<cache, wlock, arg, existing, retries, entry, cache0, after_panic>>

\* IR_Get without the re-check of get(): the owner always enters init.
IR_Get_NoRecheck(t) ==
    /\ pc[t] = "ir_get"
    /\ pc' = [pc EXCEPT ![t] = "ir_init"]
    /\ ran' = [ran EXCEPT ![t] = ran[t] + 1]
    /\ UNCHANGED <<slot, result>>
    /\ UNCHANGED <<waiters, cache, wlock, arg, existing, retries, entry, cache0, after_panic>>

\* if let Some(value) = get() { *lock = Ready(Ok(value.clone())); .. }
\* else the init closure is entered
IR_Get(t) ==
    /\ pc[t] = "ir_get"
    /\ LET value == cache_get_entry(cache, arg[t].key) IN
       IF value # NoValue
         THEN /\ slot' = [slot EXCEPT ![t] = ReadyOk(value)]
              /\ result' = [result EXCEPT ![t] = ReadExisting(value)]
              /\ pc' = [pc EXCEPT ![t] = "ir_remove"]
              /\ UNCHANGED ran
         ELSE /\ pc' = [pc EXCEPT ![t] = "ir_init"]
              /\ ran' = [ran EXCEPT ![t] = ran[t] + 1]
              /\ UNCHANGED <<slot, result>>
    /\ UNCHANGED <<waiters, cache, wlock, arg, existing, retries, entry, cache0, after_panic>>


\* init_outcome that returns Initialized without having called insert.
init_outcome_NoInsert(t, type_id, o) ==
    IF o = Panic
        THEN [slot |-> InitClosurePanicked, result |-> ClosurePanic, insert |-> NoValue]
    ELSE LET r == post_init(type_id, o) IN
         IF r.ok
             THEN [slot |-> ReadyOk(r.v), result |-> Initialized(r.v), insert |-> NoValue]
             ELSE [slot |-> ReadyErr(r.e, t), result |-> InitErr(r.e, t), insert |-> NoValue]

\* init_outcome that wraps the error twice: the waiter gets one Arc, the owner's
\* caller another.
init_outcome_TwoErrorObjects(t, type_id, o) ==
    IF o = Panic
        THEN [slot |-> InitClosurePanicked, result |-> ClosurePanic, insert |-> NoValue]
    ELSE LET r == post_init(type_id, o) IN
         IF r.ok
             THEN [slot |-> ReadyOk(r.v), result |-> Initialized(r.v), insert |-> r.v]
             ELSE [slot |-> ReadyErr(r.e, 0), result |-> InitErr(r.e, t), insert |-> NoValue]

\* match catch_unwind(AssertUnwindSafe(init)) {
\*   Ok(value) => match post_init(value) {
\*     Ok(value) => { insert(value.clone()); *lock = Ready(Ok(value.clone()));
\*                    InitResult::Initialized(value) }
\*     Err(e) => { let err: ErrorObject = Arc::new(e); *lock = Ready(Err(Arc::clone(&err)));
\*                 InitResult::InitErr(err.downcast().unwrap()) } },
\*   Err(payload) => { *lock = InitClosurePanicked; .. resume_unwind(payload) } }
\* `insert` is the value handed to the insert closure (NoValue: not called).
init_outcome(t, type_id, o) ==
    IF o = Panic
        THEN [slot |-> InitClosurePanicked, result |-> ClosurePanic, insert |-> NoValue]
    ELSE LET r == post_init(type_id, o) IN
         IF r.ok
             THEN [slot |-> ReadyOk(r.v), result |-> Initialized(r.v), insert |-> r.v]
             ELSE [slot |-> ReadyErr(r.e, t), result |-> InitErr(r.e, t), insert |-> NoValue]

\* The init closure ends (returns o or panics) and the owner records the outcome.
IR_Init(t, o) ==
    /\ pc[t] = "ir_init"
    /\ pc' = [pc EXCEPT ![t] = "ir_remove"]
    /\ LET out == init_outcome(t, arg[t].type_id, o) IN
       /\ slot' = [slot EXCEPT ![t] = out.slot]
       /\ result' = [result EXCEPT ![t] = out.result]
       /\ cache' = IF out.insert # NoValue
                     THEN cache_insert(cache, arg[t].key, out.insert) ELSE cache
    /\ UNCHANGED <<waiters, wlock, arg, existing, retries, entry, ran, cache0, after_panic>>

\* IR_Remove that leaves the entry in place when the closure panicked.
IR_Remove_NotOnPanic(t) ==
    /\ pc[t] = "ir_remove"
    /\ waiters' = IF result[t] = ClosurePanic THEN waiters
                  ELSE remove_waiter(waiters, waiter_key_hash(arg[t].key, arg[t].type_id))
    /\ pc' = [pc EXCEPT ![t] = "ir_exit"]
    /\ UNCHANGED <<cache, slot, wlock, arg, existing, retries, entry, result, ran, cache0, after_panic>>

\* IR_Remove that leaves the entry in place when the owner's re-check of get()
\* found the value.
IR_Remove_NotAfterRecheck(t) ==
    /\ pc[t] = "ir_remove"
    /\ waiters' = IF result[t].r = "ReadExisting" THEN waiters
                  ELSE remove_waiter(waiters, waiter_key_hash(arg[t].key, arg[t].type_id))
    /\ pc' = [pc EXCEPT ![t] = "ir_exit"]
    /\ UNCHANGED <<cache, slot, wlock, arg, existing, retries, entry, result, ran, cache0, after_panic>>

\* self.remove_waiter(w_key, w_hash);
IR_Remove(t) ==
    /\ pc[t] = "ir_remove"
    /\ waiters' = remove_waiter(waiters, waiter_key_hash(arg[t].key, arg[t].type_id))
    /\ pc' = [pc EXCEPT ![t] = "ir_exit"]
    /\ UNCHANGED <<cache, slot, wlock, arg, existing, retries, entry, result, ran, cache0, after_panic>>

\* IR_Exit that never releases the write lock (the guard is leaked).
IR_Exit_KeepLock(t) ==
    /\ pc[t] = "ir_exit"
    /\ pc' = [pc EXCEPT ![t] = "done"]
    /\ UNCHANGED <<wlock, existing>>
    /\ UNCHANGED <<waiters, cache, slot, arg, retries, entry, result, ran, cache0, after_panic>>

\* return .. / resume_unwind(payload); the write lock is unlocked here
IR_Exit(t) ==
    /\ pc[t] = "ir_exit"
    /\ pc' = [pc EXCEPT ![t] = "done"]
    /\ DropLock(t)
    /\ UNCHANGED <<waiters, cache, slot, arg, retries, entry, result, ran, cache0, after_panic>>


\* TC_Begin that registers the call's waiter under the type id of get_with
\* instead of ComputeNone.
TC_Begin_SharedTag(t, key) ==
    /\ pc[t] = "idle"
    /\ arg' = [arg EXCEPT ![t] = [key |-> key, type_id |-> type_id_ComputeNone]]
    /\ slot' = [slot EXCEPT ![t] = Computing]
    /\ wlock' = [wlock EXCEPT ![t] = TRUE]
    /\ Register(t, waiter_key_hash(key, type_id_for_get_with), "tc_get_entry", "tc_read")
    /\ after_panic' = [after_panic EXCEPT ![t] =
           PanicEndedFor(waiter_key_hash(key, type_id_ComputeNone))]
    /\ UNCHANGED <<cache, retries, entry, result, ran, cache0>>

\* -------------------------------------------------------------- try_compute
\* The call begins: let type_id = TypeId::of::<ComputeNone>(); let waiter = ..;
\* let mut lock = waiter.write(); and the first pass through the head of the loop.
TC_Begin(t, key) ==
    /\ pc[t] = "idle"
    /\ arg' = [arg EXCEPT ![t] = [key |-> key, type_id |-> type_id_ComputeNone]]
    /\ slot' = [slot EXCEPT ![t] = Computing]
    /\ wlock' = [wlock EXCEPT ![t] = TRUE]
    /\ Register(t, waiter_key_hash(key, type_id_ComputeNone), "tc_get_entry", "tc_read")
    /\ after_panic' = [after_panic EXCEPT ![t] =
           PanicEndedFor(waiter_key_hash(key, type_id_ComputeNone))]
    /\ UNCHANGED <<cache, retries, entry, result, ran, cache0>>

\* The head of the loop again, after `continue`.
TC_TryInsert(t) ==
    /\ pc[t] = "tc_insert"
    /\ Register(t, waiter_key_hash(arg[t].key, arg[t].type_id), "tc_get_entry", "tc_read")
    /\ UNCHANGED <<cache, slot, wlock, arg, retries, entry, result, ran, cache0, after_panic>>


\* TC_Read that returns once the owner has finished instead of retrying (as a
\* follower of try_init_or_read does).
TC_Read_ReturnAfterWait(t) ==
    /\ pc[t] = "tc_read"
    /\ CanRead(existing[t])
    /\ pc' = [pc EXCEPT ![t] = "done"]
    /\ result' = [result EXCEPT ![t] =
           IF WaiterValueOf(existing[t]).st = "Computing" THEN UnexpectedState ELSE Nop(NoValue)]
    /\ DropLock(t)
    /\ UNCHANGED <<waiters, cache, slot, arg, retries, entry, ran, cache0, after_panic>>

\* let waiter_result = existing_waiter.read();
\* match &*waiter_result { Computing => panic!(..), _ => continue }
TC_Read(t) ==
    /\ pc[t] = "tc_read"
    /\ CanRead(existing[t])
    /\ IF WaiterValueOf(existing[t]).st = "Computing"
         THEN /\ pc' = [pc EXCEPT ![t] = "done"]
              /\ result' = [result EXCEPT ![t] = UnexpectedState]
              /\ DropLock(t)
         ELSE /\ pc' = [pc EXCEPT ![t] = "tc_insert"]
              /\ UNCHANGED <<wlock, existing, result>>
    /\ UNCHANGED <<waiters, cache, slot, arg, retries, entry, ran, cache0, after_panic>>



\* TC_GetEntry that takes the call's waiter out of the registry before the
\* closure is entered.
TC_GetEntry_RemoveEarly(t, allow_nop) ==
    /\ pc[t] = "tc_get_entry"
    /\ LET maybe_entry == cache_get_entry(cache, arg[t].key) IN
       entry' = [entry EXCEPT ![t] =
                   [maybe_entry |-> maybe_entry,
                    maybe_value |-> IF allow_nop THEN maybe_entry ELSE NoValue,
                    entry_existed |-> maybe_entry # NoValue]]
    /\ waiters' = remove_waiter(waiters, waiter_key_hash(arg[t].key, arg[t].type_id))
    /\ pc' = [pc EXCEPT ![t] = "tc_eval"]
    /\ ran' = [ran EXCEPT ![t] = ran[t] + 1]
    /\ UNCHANGED <<cache, slot, wlock, arg, existing, retries, result, cache0, after_panic>>

\* TC_GetEntry that snapshots the current value whatever allow_nop says.
TC_GetEntry_AlwaysSnapshot(t, allow_nop) ==
    /\ pc[t] = "tc_get_entry"
    /\ LET maybe_entry == cache_get_entry(cache, arg[t].key) IN
       entry' = [entry EXCEPT ![t] =
                   [maybe_entry |-> maybe_entry,
                    maybe_value |-> maybe_entry,
                    entry_existed |-> maybe_entry # NoValue]]
    /\ pc' = [pc EXCEPT ![t] = "tc_eval"]
    /\ ran' = [ran EXCEPT ![t] = ran[t] + 1]
    /\ UNCHANGED <<waiters, cache, slot, wlock, arg, existing, retries, result, cache0, after_panic>>

\* let maybe_entry = cache.get_entry(c_key, c_hash); let maybe_value = ..;
\* let entry_existed = maybe_entry.is_some();  then f(maybe_entry) is entered
TC_GetEntry(t, allow_nop) ==
    /\ pc[t] = "tc_get_entry"
    /\ LET maybe_entry == cache_get_entry(cache, arg[t].key) IN
       entry' = [entry EXCEPT ![t] =
                   [maybe_entry |-> maybe_entry,
                    maybe_value |-> IF allow_nop THEN maybe_entry ELSE NoValue,
                    entry_existed |-> maybe_entry # NoValue]]
    /\ pc' = [pc EXCEPT ![t] = "tc_eval"]
    /\ ran' = [ran EXCEPT ![t] = ran[t] + 1]
    /\ UNCHANGED <<waiters, cache, slot, wlock, arg, existing, retries, result, cache0, after_panic>>


\* TC_Eval that tells Updated from Inserted by maybe_value (the snapshot kept
\* for Nop) instead of entry_existed.
TC_Eval_TagFromNopSnapshot(t, api, o) ==
    /\ pc[t] = "tc_eval"
    /\ pc' = [pc EXCEPT ![t] = "tc_remove"]
    /\ IF o = CPanic
         THEN /\ slot' = [slot EXCEPT ![t] = InitClosurePanicked]
              /\ result' = [result EXCEPT ![t] = ClosurePanic]
              /\ UNCHANGED cache
         ELSE LET r == compute_post_init(api, o)
                  key == arg[t].key
              IN  /\ slot' = [slot EXCEPT ![t] = ReadyNone]
                  /\ IF ~r.ok
                       THEN /\ result' = [result EXCEPT ![t] = EvalErr(r.e)]
                            /\ UNCHANGED cache
                     ELSE IF r.op.op = "Nop"
                       THEN /\ result' = [result EXCEPT ![t] = Nop(entry[t].maybe_value)]
                            /\ UNCHANGED cache
                     ELSE IF r.op.op = "Put"
                       THEN /\ cache' = cache_insert(cache, key, r.op.v)
                            /\ result' = [result EXCEPT ![t] =
                                 IF entry[t].maybe_value # NoValue
                                     THEN Updated(r.op.v) ELSE Inserted(r.op.v)]
                     ELSE LET maybe_prev_v == cache_get_entry(cache, key) IN
                            /\ cache' = cache_remove(cache, key)
                            /\ result' = [result EXCEPT ![t] =
                                 IF maybe_prev_v # NoValue
                                     THEN Removed(maybe_prev_v) ELSE Nop(NoValue)]
    /\ entry' = [entry EXCEPT ![t] = NoEntry]
    /\ UNCHANGED <<waiters, wlock, arg, existing, retries, ran, cache0, after_panic>>

\* match catch_unwind(AssertUnwindSafe(|| f(maybe_entry))) { Ok(op) => { match
\*   post_init(op) {..}; *lock = ReadyNone }, Err(payload) => *lock = InitClosurePanicked }
TC_Eval(t, api, o) ==
    /\ pc[t] = "tc_eval"
    /\ pc' = [pc EXCEPT ![t] = "tc_remove"]
    /\ IF o = CPanic
         THEN /\ slot' = [slot EXCEPT ![t] = InitClosurePanicked]
              /\ result' = [result EXCEPT ![t] = ClosurePanic]
              /\ UNCHANGED cache
         ELSE LET r == compute_post_init(api, o)
                  key == arg[t].key
              IN  /\ slot' = [slot EXCEPT ![t] = ReadyNone]
                  /\ IF ~r.ok
                       THEN /\ result' = [result EXCEPT ![t] = EvalErr(r.e)]
                            /\ UNCHANGED cache
                     ELSE IF r.op.op = "Nop"
                       THEN /\ result' = [result EXCEPT ![t] = Nop(entry[t].maybe_value)]
                            /\ UNCHANGED cache
                     ELSE IF r.op.op = "Put"
                       THEN /\ cache' = cache_insert(cache, key, r.op.v)
                            /\ result' = [result EXCEPT ![t] =
                                 IF entry[t].entry_existed
                                     THEN Updated(r.op.v) ELSE Inserted(r.op.v)]
                     ELSE LET maybe_prev_v == cache_get_entry(cache, key) IN
                            /\ cache' = cache_remove(cache, key)
                            /\ result' = [result EXCEPT ![t] =
                                 IF maybe_prev_v # NoValue
                                     THEN Removed(maybe_prev_v) ELSE Nop(NoValue)]
    /\ entry' = [entry EXCEPT ![t] = NoEntry]
    /\ UNCHANGED <<waiters, wlock, arg, existing, retries, ran, cache0, after_panic>>


\* TC_Remove with the write guard dropped together with the removal, not at
\* the end of the call.
TC_Remove_Unlocks(t) ==
    /\ pc[t] = "tc_remove"
    /\ waiters' = remove_waiter(waiters, waiter_key_hash(arg[t].key, arg[t].type_id))
    /\ pc' = [pc EXCEPT ![t] = "tc_exit"]
    /\ DropLock(t)
    /\ UNCHANGED <<cache, slot, arg, retries, entry, result, ran, cache0, after_panic>>

\* self.remove_waiter(w_key, w_hash);
TC_Remove(t) ==
    /\ pc[t] = "tc_remove"
    /\ waiters' = remove_waiter(waiters, waiter_key_hash(arg[t].key, arg[t].type_id))
    /\ pc' = [pc EXCEPT ![t] = "tc_exit"]
    /\ UNCHANGED <<cache, slot, wlock, arg, existing, retries, entry, result, ran, cache0, after_panic>>

\* init_res / resume_unwind(payload); the lock is unlocked here
TC_Exit(t) ==
    /\ pc[t] = "tc_exit"
    /\ pc' = [pc EXCEPT ![t] = "done"]
    /\ DropLock(t)
    /\ UNCHANGED <<waiters, cache, slot, arg, retries, entry, result, ran, cache0, after_panic>>

\* ------------------------------------------------------------ specification
Next ==
    \/ \E t \in Threads, key \in Keys, type_id \in InitTypeIds : IR_Begin(t, key, type_id)
    \/ \E t \in Threads : IR_TryInsert(t)
    \/ \E t \in Threads : IR_Read(t)
    \/ \E t \in Threads : IR_Get(t)
    \/ \E t \in Threads : \E o \in InitOutputs(arg[t].type_id) \cup {Panic} : IR_Init(t, o)
    \/ \E t \in Threads : IR_Remove(t)
    \/ \E t \in Threads : IR_Exit(t)
    \/ \E t \in Threads, key \in Keys : TC_Begin(t, key)
    \/ \E t \in Threads : TC_TryInsert(t)
    \/ \E t \in Threads : TC_Read(t)
    \/ \E t \in Threads, allow_nop \in BOOLEAN : TC_GetEntry(t, allow_nop)
    \/ \E t \in Threads, api \in ComputeApis :
           \E o \in ComputeOutputs(api) \cup {CPanic} : TC_Eval(t, api, o)
    \/ \E t \in Threads : TC_Remove(t)
    \/ \E t \in Threads : TC_Exit(t)

Spec == Init /\ [][Next]_vars

\* ---------------------------------------------------------------- vocabulary
WKeyOf(t) == waiter_key_hash(arg[t].key, arg[t].type_id)
WKeys == {waiter_key_hash(k, ty) : k \in Keys, ty \in InitTypeIds \cup {type_id_ComputeNone}}

\* t is between a successful try_insert_waiter and its remove_waiter
IsOwner(t) == pc[t] \in {"ir_get", "ir_init", "ir_remove", "tc_get_entry", "tc_eval", "tc_remove"}
\* t found an existing waiter and has not read it yet
IsWaiting(t) == pc[t] \in {"ir_read", "tc_read"}
\* t is inside its closure (init of try_init_or_read, f of try_compute)
InClosure(t) == pc[t] \in {"ir_init", "tc_eval"}
Ended(t) == pc[t] = "done"
EntriesOf(w_key) == {en \in waiters : en.w_key = w_key}

\* ------------------------------------------------------------------------ C1
\* C1: for every (key, type_id) the registry holds at most one waiter and at
\* most one thread is between its successful try_insert_waiter and its
\* remove_waiter, that thread's waiter being the registered one; a
\* try_insert_waiter that finds an entry leaves the registry as it was and
\* hands back the waiter of that entry, and no step replaces an entry by another.
C1_OneEntryOneOwner ==
    \A w_key \in WKeys :
        /\ Cardinality(EntriesOf(w_key)) <= 1
        /\ Cardinality({t \in Threads : IsOwner(t) /\ WKeyOf(t) = w_key}) <= 1
        /\ \A t \in Threads :
               (IsOwner(t) /\ WKeyOf(t) = w_key) <=> WEntry(w_key, t) \in waiters

C1_InsertKeepsExisting ==
    \A t \in Threads :
        /\ (~IsWaiting(t) /\ IsWaiting(t)') =>
               /\ waiters' = waiters
               /\ WEntry(WKeyOf(t)', existing'[t].owner) \in waiters
        /\ (~IsOwner(t) /\ IsOwner(t)') =>
               /\ EntriesOf(WKeyOf(t)') = {}
               /\ waiters' = waiters \cup {WEntry(WKeyOf(t)', t)}

C1_NeverReplaced ==
    \A en \in waiters : \A en2 \in waiters' : en2.w_key = en.w_key => en2 = en

C1_SingleSlot ==
    /\ []C1_OneEntryOneOwner
    /\ [][C1_InsertKeepsExisting /\ C1_NeverReplaced]_vars

\* An insertion attempt met a registered waiter whose owner is still at work.
C1_Witness ==
    \E t \in Threads, o \in Threads :
        /\ IsWaiting(t) /\ IsOwner(o) /\ existing[t].owner = o
        /\ WKeyOf(t) = WKeyOf(o) /\ EntriesOf(WKeyOf(t)) = {WEntry(WKeyOf(o), o)}

\* ------------------------------------------------------------------------ C2
AllEnded == \A t \in Threads : Ended(t)
\* every thread made a try_init_or_read call, all with one key and one type_id
SameInitCall ==
    \A t, u \in Threads : arg[t].type_id \in InitTypeIds /\ WKeyOf(t) = WKeyOf(u)
\* the calls overlapped: each one waited on another's waiter or was waited on
Overlapped ==
    \A t \in Threads : \E u \in Threads \ {t} :
        existing[t].owner = u \/ existing[u].owner = t
RECURSIVE SumRan(_)
SumRan(S) == IF S = {} THEN 0 ELSE LET t == CHOOSE x \in S : TRUE IN ran[t] + SumRan(S \ {t})
TotalRuns == SumRan(Threads)
\* t's own init closure panicked, or post_init turned its output into an error
InitFailedIn(t) == result[t] = ClosurePanic \/ (result[t].r = "InitErr" /\ result[t].by = t)

\* C2 as claimed: N concurrent try_init_or_read calls with one key (which has
\* no cached value) and one type_id execute init exactly once in total,
\* whatever its outcome.
C2_ExactlyOnceAnyOutcome ==
    (AllEnded /\ SameInitCall /\ Overlapped /\ \A t \in Threads : cache0[arg[t].key] = NoValue)
        => TotalRuns = 1

\* C2 amended: N such calls execute init exactly once in total provided that
\* execution succeeds (and not at all when the key has a cached value, every
\* call then reading it); at most one execution succeeds, no call executes
\* init twice, and a call returns Initialized, its own error or the closure's
\* panic exactly when it executed init.  (After an execution that panicked or
\* gave an error, a call that registers next executes init again.)
C2_ExactlyOnceOnSuccess ==
    (AllEnded /\ SameInitCall) =>
        /\ Cardinality({t \in Threads : result[t].r = "Initialized"}) <= 1
        /\ (\A t \in Threads : ~InitFailedIn(t)) =>
               \/ TotalRuns = 1
               \/ /\ TotalRuns = 0
                  /\ \E v \in Values : \A t \in Threads : result[t] = ReadExisting(v)
        /\ \A t \in Threads :
               /\ ran[t] <= 1
               /\ ran[t] = 1 <=> (result[t].r = "Initialized" \/ InitFailedIn(t))

\* Overlapping calls, one init execution: one call initialized, the others read.
C2_Witness ==
    /\ AllEnded /\ SameInitCall /\ Overlapped /\ TotalRuns = 1
    /\ \E t \in Threads :
           /\ result[t].r = "Initialized"
           /\ \A u \in Threads \ {t} : result[u] = ReadExisting(result[t].v) /\ ran[u] = 0

\* ------------------------------------------------------------------------ C3
\* C3 as claimed: at any moment at most one closure (init under any type_id, or
\* the decision closure of try_compute) is executing for a given key.
C3_OneClosurePerKey ==
    \A k \in Keys : Cardinality({t \in Threads : InClosure(t) /\ arg[t].key = k}) <= 1

\* C3 amended: at any moment at most one closure is executing for a given
\* (key, type_id): the init closures of one call shape exclude one another, and
\* so do the decision closures of try_compute (which share one type_id); calls
\* on one key under different type_ids may run their closures at the same time.
C3_OneClosurePerKeyAndTypeId ==
    \A w_key \in WKeys :
        Cardinality({t \in Threads : InClosure(t) /\ WKeyOf(t) = w_key}) <= 1

\* One call is inside its closure while another call for the same
\* (key, type_id) is held on its waiter.
C3_Witness ==
    \E t \in Threads, u \in Threads :
        /\ InClosure(t) /\ IsWaiting(u) /\ WKeyOf(u) = WKeyOf(t)
        /\ existing[u].owner = t /\ ~CanRead(existing[u])

\* ------------------------------------------------------------------- C4, C5
\* f is a try_init_or_read call that has ended and whose last existing_waiter
\* was the waiter registered by o
FollowerOf(f, o) ==
    /\ f # o /\ Ended(f) /\ arg[f].type_id \in InitTypeIds
    /\ existing[f].owner = o

\* C4: a try_init_or_read follower of a waiter whose owner finished with a
\* success value v (computed by init, or found by the owner's re-check of get)
\* returns ReadExisting(v): not another value, not Initialized, not an error;
\* and it never ran init.
C4_ResultFanOut ==
    \A f \in Threads, o \in Threads :
        (FollowerOf(f, o) /\ result[o].r \in {"Initialized", "ReadExisting"}) =>
            /\ result[f] = ReadExisting(result[o].v)
            /\ existing[f].val = ReadyOk(result[o].v)
            /\ ran[f] = 0

\* A follower has returned the value its owner computed by init.
C4_Witness ==
    \E f \in Threads, o \in Threads, v \in Values :
        /\ FollowerOf(f, o) /\ Ended(o) /\ ran[o] = 1
        /\ result[o] = Initialized(v) /\ result[f] = ReadExisting(v)
        /\ cache[arg[o].key] = v /\ v # InitialValue

\* C5: when post_init turns the owner's init output into Err(e), the owner
\* stores and returns one ErrorObject holding e; every follower of that waiter
\* returns InitErr with that same object, and never a value, and never runs init.
C5_OwnerErr ==
    \A o \in Threads :
        (arg[o].type_id \in InitTypeIds /\ ran[o] = 1 /\ ~InClosure(o)) =>
            /\ slot[o].st = "ReadyErr" <=> result[o].r = "InitErr"
            /\ slot[o].st = "ReadyErr" =>
                   /\ result[o] = InitErr(slot[o].e, o)
                   /\ slot[o].by = o
                   /\ \E raw \in InitOutputs(arg[o].type_id) :
                          post_init(arg[o].type_id, raw) = Err(slot[o].e)

C5_FollowerErr ==
    \A f \in Threads, o \in Threads :
        (FollowerOf(f, o) /\ result[o].r = "InitErr") =>
            /\ result[o].by = o
            /\ slot[o] = ReadyErr(result[o].e, o)
            /\ result[f] = result[o]
            /\ ran[f] = 0

C5_ErrorFanOut == C5_OwnerErr /\ C5_FollowerErr

\* A follower has returned the error object of its owner (a try_get_with call).
C5_Witness ==
    \E f \in Threads, o \in Threads, e \in Errors :
        /\ FollowerOf(f, o) /\ Ended(o) /\ ran[o] = 1
        /\ arg[o].type_id = type_id_for_try_get_with
        /\ result[o] = InitErr(e, o) /\ result[f] = InitErr(e, o)
        /\ cache[arg[o].key] = NoValue

\* ------------------------------------------------------------------------ C6
HasEntry(t) == \E en \in waiters : en.waiter = t
AfterRemove(t) == pc[t] \in {"ir_exit", "tc_exit", "done"}

\* C6, the owner: a call whose closure panicked ends with that panic and no
\* InitResult / ComputeResult; its waiter holds InitClosurePanicked from before
\* remove_waiter on, and its registry entry is gone before the panic goes on.
C6_PanickedOwner ==
    \A p \in Threads :
        /\ (ran[p] = 1 /\ ~InClosure(p)) =>
               (slot[p] = InitClosurePanicked <=> result[p] = ClosurePanic)
        /\ result[p] = ClosurePanic =>
               /\ ran[p] = 1
               /\ slot[p] = InitClosurePanicked
               /\ pc[p] \in {"ir_remove", "tc_remove"} \/ AfterRemove(p)
               /\ AfterRemove(p) => ~HasEntry(p)

\* C6, the later call: with one call p ended by its closure's panic and nothing
\* else going on, a call l for the same (key, type_id) begun after p ended
\* registers at its first attempt, never waits or retries, executes its closure,
\* and does not fail on account of p's waiter.
C6_LaterCall ==
    \A p \in Threads, l \in Threads :
        ( /\ p # l /\ Ended(p) /\ result[p] = ClosurePanic
          /\ after_panic[l] /\ WKeyOf(l) = WKeyOf(p)
          /\ \A q \in Threads \ {p, l} : pc[q] = "idle" ) =>
            /\ IsOwner(l) \/ AfterRemove(l)
            /\ existing[l] = NoExisting /\ retries[l] = 0
            /\ pc[l] \notin {"ir_get", "tc_get_entry"} => ran[l] = 1
            /\ result[l] \notin {TooManyRetries, UnexpectedState}

C6_PanicTransparency == C6_PanickedOwner /\ C6_LaterCall

\* After a call ended by its closure's panic, a later call for the same
\* (key, type_id) is inside its closure.
C6_Witness ==
    \E p \in Threads, l \in Threads :
        /\ p # l /\ Ended(p) /\ result[p] = ClosurePanic /\ ~HasEntry(p)
        /\ after_panic[l] /\ WKeyOf(l) = WKeyOf(p)
        /\ InClosure(l) /\ WEntry(WKeyOf(l), l) \in waiters

\* ------------------------------------------------------------------------ C7
\* C7: a registry entry is there only while the call that inserted it is
\* between try_insert_waiter and remove_waiter; a call that has ended (by
\* return or by unwinding) left none behind, and once every call has ended the
\* registry is empty.
C7_NoLeakedEntries ==
    /\ \A en \in waiters : IsOwner(en.waiter) /\ en.w_key = WKeyOf(en.waiter)
    /\ \A t \in Threads : AfterRemove(t) => ~HasEntry(t)
    /\ AllEnded => waiters = {}

\* Every call has ended, one by its closure's panic and one as an owner that
\* returned a result, and the registry is empty.
C7_Witness ==
    /\ AllEnded /\ waiters = {}
    /\ \E t \in Threads : result[t] = ClosurePanic
    /\ \E t \in Threads : ran[t] = 1 /\ result[t].r \in {"Initialized", "InitErr", "Inserted",
                                                        "Updated", "Removed", "Nop", "EvalErr"}

\* ------------------------------------------------------------------------ C8
Terminal == {"ReadyOk", "ReadyErr", "ReadyNone", "InitClosurePanicked"}

\* C8: a registered waiter is write-locked by its owner, the owner keeps the
\* lock until its call exits, and whenever a follower (of either call) can take
\* the read lock the waiter holds a terminal state, never Computing.
C8_NeverComputing ==
    /\ \A en \in waiters : wlock[en.waiter]
    /\ \A t \in Threads : (IsOwner(t) \/ pc[t] \in {"ir_exit", "tc_exit"}) => wlock[t]
    /\ \A f \in Threads :
           (IsWaiting(f) /\ CanRead(existing[f])) =>
               WaiterValueOf(existing[f]).st \in Terminal
    /\ \A f \in Threads :
           (IsWaiting(f) /\ WaiterValueOf(existing[f]).st = "Computing") =>
               ~CanRead(existing[f])

\* A follower is about to read a waiter its owner has released.
C8_Witness ==
    \E f \in Threads :
        /\ IsWaiting(f) /\ CanRead(existing[f]) /\ existing[f].released
        /\ Ended(existing[f].owner)
        /\ WaiterValueOf(existing[f]).st \in Terminal

\* ------------------------------------------------------------------------ C9
\* Whether a call ends does not depend on which value its closure produced,
\* only on how the closure ended: the closures of the fair specification
\* produce InitialValue wherever they produce a value.
FairInitOutputs(type_id) == {o \in InitOutputs(type_id) : o.v \in {NoValue, InitialValue}}
FairComputeOutputs(api) == {o \in ComputeOutputs(api) : o.op.v \in {NoValue, InitialValue}}

\* The steps of t's call after it began.  A thread that can take a step is
\* scheduled sooner or later, and a closure that was entered ends (returns or
\* panics): weak fairness of each thread's steps.
Step(t) ==
    \/ IR_TryInsert(t) \/ IR_Read(t) \/ IR_Get(t)
    \/ \E o \in FairInitOutputs(arg[t].type_id) \cup {Panic} : IR_Init(t, o)
    \/ IR_Remove(t) \/ IR_Exit(t)
    \/ TC_TryInsert(t) \/ TC_Read(t)
    \/ \E allow_nop \in BOOLEAN : TC_GetEntry(t, allow_nop)
    \/ \E api \in ComputeApis : \E o \in FairComputeOutputs(api) \cup {CPanic} : TC_Eval(t, api, o)
    \/ TC_Remove(t) \/ TC_Exit(t)

FairNext ==
    \/ \E t \in Threads, key \in Keys, type_id \in InitTypeIds : IR_Begin(t, key, type_id)
    \/ \E t \in Threads : IR_TryInsert(t)
    \/ \E t \in Threads : IR_Read(t)
    \/ \E t \in Threads : IR_Get(t)
    \/ \E t \in Threads : \E o \in FairInitOutputs(arg[t].type_id) \cup {Panic} : IR_Init(t, o)
    \/ \E t \in Threads : IR_Remove(t)
    \/ \E t \in Threads : IR_Exit(t)
    \/ \E t \in Threads, key \in Keys : TC_Begin(t, key)
    \/ \E t \in Threads : TC_TryInsert(t)
    \/ \E t \in Threads : TC_Read(t)
    \/ \E t \in Threads, allow_nop \in BOOLEAN : TC_GetEntry(t, allow_nop)
    \/ \E t \in Threads, api \in ComputeApis :
           \E o \in FairComputeOutputs(api) \cup {CPanic} : TC_Eval(t, api, o)
    \/ \E t \in Threads : TC_Remove(t)
    \/ \E t \in Threads : TC_Exit(t)

FairSpec == Init /\ [][FairNext]_vars /\ \A t \in Threads : WF_vars(Step(t))

\* C9, safety: no call waits on a waiter it cannot read unless the waiter's
\* owner is still inside its call.
C9_NoStaleWait ==
    \A f \in Threads :
        (IsWaiting(f) /\ ~CanRead(existing[f])) =>
            (IsOwner(existing[f].owner) \/ pc[existing[f].owner] \in {"ir_exit", "tc_exit"})

\* No call is held on a waiter or is anywhere else inside the initializer.
C9_AllCallsEnded == \A t \in Threads : pc[t] = "idle" \/ Ended(t)

\* C9: with closures that end and fair scheduling, a call held on a waiter is
\* released once the owner has exited (by success, error or panic), and every
\* call of the finite set of calls ends: from some point on no call is held on
\* a waiter or is otherwise unfinished; and no call ever waits on a waiter
\* whose owner has ended.
C9_NoFollowerBlockedForever ==
    /\ []C9_NoStaleWait
    /\ <>[]C9_AllCallsEnded

\* A try_compute call waited on another's waiter, was released when that owner
\* ended, registered its own waiter and ended with its own outcome.
C9_Witness ==
    \E f \in Threads, o \in Threads :
        /\ f # o /\ Ended(f) /\ Ended(o)
        /\ existing[f].owner = o /\ existing[f].released
        /\ arg[f].type_id = type_id_ComputeNone /\ ran[f] = 1

\* ----------------------------------------------------------------------- C10
\* A thread whose call has ended makes another call.
Recycle(t) ==
    /\ pc[t] = "done"
    /\ pc' = [pc EXCEPT ![t] = "idle"]
    /\ arg' = [arg EXCEPT ![t] = NoArg]
    /\ slot' = [slot EXCEPT ![t] = Computing]
    /\ existing' = [existing EXCEPT ![t] = NoExisting]
    /\ retries' = [retries EXCEPT ![t] = 0]
    /\ result' = [result EXCEPT ![t] = NoResult]
    /\ ran' = [ran EXCEPT ![t] = 0]
    /\ after_panic' = [after_panic EXCEPT ![t] = FALSE]
    /\ UNCHANGED <<waiters, cache, wlock, entry, cache0>>

\* The caller whose retries are followed; the other threads supply the owners.
Observer == CHOOSE t \in Threads : TRUE

\* get_with calls whose init panics every time.  The observer calls at any
\* time; another thread calls when no waiter is registered for the key, so that
\* it becomes the owner of the next waiter.
RetryNext ==
    \/ \E key \in Keys : IR_Begin(Observer, key, type_id_for_get_with)
    \/ \E t \in Threads \ {Observer}, key \in Keys :
           /\ EntriesOf(waiter_key_hash(key, type_id_for_get_with)) = {}
           /\ IR_Begin(t, key, type_id_for_get_with)
    \/ \E t \in Threads : IR_TryInsert(t)
    \/ \E t \in Threads : IR_Read(t)
    \/ \E t \in Threads : IR_Get(t)
    \/ \E t \in Threads : IR_Init(t, Panic)
    \/ \E t \in Threads : IR_Remove(t)
    \/ \E t \in Threads : IR_Exit(t)
    \/ \E t \in Threads : Recycle(t)

SpecRetry == Init /\ [][RetryNext]_vars

\* C10 as claimed: the fatal 'Too many retries' failure comes only once the
\* caller has observed more than 200 panicked waiters (its 201st attempt).
C10_FailsAfter200 ==
    \A t \in Threads : result[t] = TooManyRetries => retries[t] > MAX_RETRIES

\* C10 amended: a caller whose every attempt finds a waiter that ends in
\* InitClosurePanicked goes on retrying through its first 199 attempts and fails
\* with 'Too many retries' at the 200th: exactly when the number of panicked
\* waiters it has observed reaches MAX_RETRIES.
C10_FailsAt200 ==
    \A t \in Threads :
        /\ retries[t] <= MAX_RETRIES
        /\ result[t] = TooManyRetries <=> retries[t] = MAX_RETRIES
        /\ pc[t] = "ir_insert" => (retries[t] >= 1 /\ retries[t] < MAX_RETRIES)
        /\ (retries[t] > 0 /\ retries[t] < MAX_RETRIES) => result[t] # TooManyRetries

\* The observer has failed with 'Too many retries' on its 200th panicked waiter.
C10_Witness ==
    /\ result[Observer] = TooManyRetries /\ Ended(Observer)
    /\ retries[Observer] = MAX_RETRIES /\ existing[Observer].val = InitClosurePanicked


\* ----------------------------------------------------------------------- C11
\* The outcome and the cache value after an operation op applied to a key whose
\* prior entry is `prior` (NoValue: absent), for a call made with allow_nop.
C11_Outcome(prior, op, allow_nop) ==
    IF op.op = "Put"
        THEN [result |-> IF prior = NoValue THEN Inserted(op.v) ELSE Updated(op.v),
              after |-> op.v]
    ELSE IF op.op = "Remove"
        THEN [result |-> IF prior # NoValue THEN Removed(prior) ELSE Nop(NoValue),
              after |-> NoValue]
    ELSE [result |-> IF allow_nop /\ prior # NoValue THEN Nop(prior) ELSE Nop(NoValue),
          after |-> prior]

\* The call reads the entry: what it keeps for a possible Nop depends on allow_nop.
C11_Snapshot ==
    \A t \in Threads :
        (pc[t] = "tc_get_entry" /\ pc'[t] = "tc_eval") =>
            \A allow_nop \in BOOLEAN :
                TC_GetEntry(t, allow_nop) =>
                    LET prior == cache[arg[t].key] IN
                    /\ entry'[t].maybe_entry = prior
                    /\ entry'[t].entry_existed = (prior # NoValue)
                    /\ entry'[t].maybe_value =
                           IF allow_nop /\ prior # NoValue THEN prior ELSE NoValue

\* The closure returned and the operation op is applied, the cache's entry
\* being the one the call read (no mutation in between).  (Whichever of the
\* three post_init functions produced op, the step is that of and_compute_with
\* returning op.)
C11_Apply ==
    \A t \in Threads :
        (pc[t] = "tc_eval" /\ pc'[t] = "tc_remove" /\ cache[arg[t].key] = entry[t].maybe_entry) =>
            \A op \in Ops :
                TC_Eval(t, "compute_with", CRaw("Op", op, 0)) =>
                    LET prior == entry[t].maybe_entry
                        allow_nop == entry[t].maybe_value # NoValue
                        exp == C11_Outcome(prior, op, allow_nop)
                    IN  /\ result'[t] = exp.result
                        /\ cache' = [cache EXCEPT ![arg[t].key] = exp.after]

\* C11: for a try_compute call with no concurrent mutation of the key, the
\* outcome and the cache effect are the function C11_Outcome of the prior
\* entry, the operation and allow_nop: Put inserts (Inserted) or overwrites
\* (Updated), Remove removes (Removed(p)) or does nothing (Nop(None)), Nop
\* changes nothing and carries the current value only when allow_nop is set
\* and an entry exists.
C11_ComputeClassification == [][C11_Snapshot /\ C11_Apply]_vars

\* A call made with allow_nop on a present key ended with Nop(Some(value)) and
\* left the cache as it was.
C11_Witness ==
    \E t \in Threads :
        /\ Ended(t) /\ arg[t].type_id = type_id_ComputeNone
        /\ result[t].r = "Nop" /\ result[t].v # NoValue
        /\ cache[arg[t].key] = result[t].v


\* ----------------------------------------------------------------------- C12
\* Decision closures that depend on the entry they are given: put the entry's
\* value plus one (an absent entry counts as NoValue = 0), remove, do nothing,
\* or panic.
CounterOutputs(t) ==
    {CRaw("Op", OpPut(entry[t].maybe_entry + 1), 0), CRaw("Op", OpRemove, 0),
     CRaw("Op", OpNop, 0), CPanic}

\* The cache is mutated only through try_compute (and_compute_with closures).
ComputeNext ==
    \/ \E t \in Threads, key \in Keys : TC_Begin(t, key)
    \/ \E t \in Threads : TC_TryInsert(t)
    \/ \E t \in Threads : TC_Read(t)
    \/ \E t \in Threads, allow_nop \in BOOLEAN : TC_GetEntry(t, allow_nop)
    \/ \E t \in Threads : \E o \in CounterOutputs(t) : TC_Eval(t, "compute_with", o)
    \/ \E t \in Threads : TC_Remove(t)
    \/ \E t \in Threads : TC_Exit(t)

SpecCompute == Init /\ [][ComputeNext]_vars

\* t is in its owner section: registered, its waiter not yet removed
InOwnerSection(t) == pc[t] \in {"tc_get_entry", "tc_eval", "tc_remove"}

\* Owner sections on one key never overlap, and the entry a call read is
\* still the cache's entry while its closure runs.
C12_Serialized ==
    /\ \A t, u \in Threads :
           (t # u /\ InOwnerSection(t) /\ InOwnerSection(u)) => arg[t].key # arg[u].key
    /\ \A t \in Threads :
           pc[t] = "tc_eval" => entry[t].maybe_entry = cache[arg[t].key]

\* The tag of each outcome matches the cache just before the mutation.
C12_TagMatches ==
    \A t \in Threads :
        (pc[t] = "tc_eval" /\ pc'[t] = "tc_remove") =>
            /\ result'[t].r = "Inserted" => cache[arg[t].key] = NoValue
            /\ result'[t].r = "Updated" => cache[arg[t].key] # NoValue
            /\ result'[t].r = "Removed" => cache[arg[t].key] = result'[t].v

\* No lost update: once the calls have ended, if each of them put its entry's
\* value plus one, the value has grown by the number of calls.
C12_NoLostUpdate ==
    LET ended == {t \in Threads : Ended(t)} IN
    ((\A t \in Threads : pc[t] \in {"idle", "done"})
       /\ (\A t \in ended : result[t].r \in {"Inserted", "Updated"}))
      => \A k \in Keys :
            cache[k] = cache0[k] + Cardinality({t \in ended : arg[t].key = k})

\* C12: with the cache mutated only through try_compute, the owner sections of
\* concurrent calls on one key never overlap: the entry given to a closure is
\* still the cache's entry when the Put/Remove is applied, N calls that each
\* put current + 1 leave the value increased by exactly N, and each outcome's
\* tag matches the cache state just before its mutation.
C12_ComputeSerialized ==
    /\ [](C12_Serialized /\ C12_NoLostUpdate)
    /\ [][C12_TagMatches]_vars

\* Every thread made a call, at least one of them waited on another's waiter,
\* and each put its entry's value plus one.
C12_Witness ==
    /\ \A t \in Threads : Ended(t) /\ result[t].r \in {"Inserted", "Updated"}
    /\ \E t \in Threads : existing[t].owner # NoWaiter
    /\ \A k \in Keys : cache[k] = cache0[k] + NumThreads


\* ----------------------------------------------------------------------- C13
\* The waiters registered for the key and type id of the call t is making.
C13_SameShapeEntries(key, type_id) ==
    {en \in waiters : arg[en.waiter].key = key /\ arg[en.waiter].type_id = type_id}

\* A call only ever holds a reference to a waiter of its own (key, type_id),
\* and an InitErr comes from an owner that was called with the same type id.
C13_OwnShapeOnly ==
    \A f \in Threads :
        /\ existing[f].owner # NoWaiter =>
               /\ arg[existing[f].owner].key = arg[f].key
               /\ arg[existing[f].owner].type_id = arg[f].type_id
        /\ result[f].r = "InitErr" =>
               /\ arg[result[f].by].key = arg[f].key
               /\ arg[result[f].by].type_id = arg[f].type_id

\* A registration attempt succeeds whenever no waiter of the call's own
\* (key, type_id) is registered, whatever is registered under other type ids.
C13_NoCrossBlock ==
    \A t \in Threads :
        (pc[t] \in {"idle", "ir_insert", "tc_insert"} /\ pc'[t] # pc[t]
           /\ C13_SameShapeEntries(arg'[t].key, arg'[t].type_id) = {})
          => IsOwner(t)'

\* C13: a call waits only on a waiter registered under its own (key, type_id);
\* calls on one key with different type ids both register and neither waits on
\* the other; an InitErr handed to a follower comes from an owner with the
\* follower's type id (so the downcast to E cannot fail).
C13_CallShapeIsolation ==
    /\ []C13_OwnShapeOnly
    /\ [][C13_NoCrossBlock]_vars

\* An initializer call and a try_compute call on one key are both owners, inside
\* their closures at once, neither having met the other's waiter.
C13_Witness ==
    \E t \in Threads, u \in Threads :
        /\ arg[t].key = arg[u].key
        /\ arg[t].type_id \in InitTypeIds /\ arg[u].type_id = type_id_ComputeNone
        /\ pc[t] = "ir_init" /\ pc[u] = "tc_eval"
        /\ existing[t] = NoExisting /\ existing[u] = NoExisting


\* ----------------------------------------------------------------------- C14
\* every thread made a try_compute call, all on one key
SameComputeCall ==
    \A t, u \in Threads : arg[t].type_id = type_id_ComputeNone /\ arg[t].key = arg[u].key

\* C14 as claimed: N concurrent try_compute calls on one key execute the
\* decision closure exactly once in total.
C14_OneDecisionInTotal ==
    (AllEnded /\ SameComputeCall /\ Overlapped) => TotalRuns = 1

\* C14 amended: every try_compute call executes its own decision closure
\* exactly once, whether it registered at once or after waiting for other
\* owners, so N calls execute N closures, one at a time.
C14_OneDecisionPerCall ==
    /\ \A t \in Threads :
           arg[t].type_id = type_id_ComputeNone =>
               /\ ran[t] <= 1
               /\ ran[t] = 1 <=> pc[t] \in {"tc_eval", "tc_remove", "tc_exit", "done"}
    /\ (AllEnded /\ SameComputeCall) => TotalRuns = NumThreads
    /\ \A k \in Keys :
           Cardinality({t \in Threads : pc[t] = "tc_eval" /\ arg[t].key = k}) <= 1

\* Overlapping try_compute calls on one key have all ended, each having
\* executed its own closure.
C14_Witness ==
    /\ AllEnded /\ SameComputeCall /\ Overlapped
    /\ \A t \in Threads : ran[t] = 1 /\ result[t] # UnexpectedState


\* ----------------------------------------------------------------------- C15
\* The owner's re-check: get() is called once; a value found is recorded in the
\* waiter and returned as ReadExisting, init is not entered and insert is not
\* called; with no value found init is entered.
C15_Recheck ==
    \A t \in Threads :
        (pc[t] = "ir_get" /\ pc'[t] # "ir_get") =>
            LET v == cache[arg[t].key] IN
            IF v # NoValue
                THEN /\ result'[t] = ReadExisting(v) /\ slot'[t] = ReadyOk(v)
                     /\ pc'[t] = "ir_remove" /\ ran'[t] = ran[t] /\ cache' = cache
                ELSE /\ pc'[t] = "ir_init" /\ ran'[t] = ran[t] + 1
                     /\ result'[t] = NoResult /\ cache' = cache

\* insert(value) is called while the owner's entry is still registered.
C15_InsertBeforeRemove ==
    \A t \in Threads :
        (pc[t] = "ir_init" /\ result'[t].r = "Initialized") =>
            /\ cache'[arg[t].key] = result'[t].v
            /\ WEntry(WKeyOf(t), t) \in waiters'

\* An owner whose re-check found the value removes its entry like any other
\* owner and never ran init; and once a call has initialized a key the key
\* keeps a value for as long as no try_compute call removes it, so that the
\* re-check of every later owner finds one.
C15_ValueStays ==
    /\ \A t \in Threads :
           (result[t].r = "ReadExisting" /\ AfterRemove(t)) => (ran[t] = 0 /\ ~HasEntry(t))
    /\ \A t \in Threads :
           (result[t].r = "Initialized" /\ \A q \in Threads : result[q].r # "Removed")
               => cache[arg[t].key] # NoValue

\* C15: after registering, a try_init_or_read owner calls get() once; if it
\* gives v the owner runs neither init nor insert, sets its waiter to
\* Ready(Ok(v)), removes its entry and returns ReadExisting(v).  insert runs
\* before the entry is removed, so after a successful initialization (and with
\* nothing removing the value) every later owner returns ReadExisting.
C15_OwnerDoubleCheck ==
    /\ []C15_ValueStays
    /\ [][C15_Recheck /\ C15_InsertBeforeRemove]_vars

\* One owner initialized the key; a call that registered later as owner found
\* the value in its re-check and returned ReadExisting without running init.
C15_Witness ==
    \E a \in Threads, b \in Threads :
        /\ a # b /\ arg[a].key = arg[b].key
        /\ Ended(a) /\ result[a].r = "Initialized"
        /\ Ended(b) /\ result[b] = ReadExisting(result[a].v)
        /\ existing[b] = NoExisting /\ ran[b] = 0 /\ slot[b] = ReadyOk(result[a].v)


\* ----------------------------------------------------------------------- C16
\* t's closure has returned and the operation is being applied
C16_Applies(t) == pc[t] = "tc_eval" /\ pc'[t] = "tc_remove"

\* Inserted / Updated against the cache as it is just before cache.insert.
C16_TagMatchesCache ==
    \A t \in Threads :
        C16_Applies(t) =>
            /\ result'[t].r = "Inserted" => cache[arg[t].key] = NoValue
            /\ result'[t].r = "Updated" => cache[arg[t].key] # NoValue

\* C16 as claimed: in any interleaving of try_compute with try_init_or_read
\* calls on a key, Inserted means the cache held no entry just before the
\* call's cache.insert and Updated means it held one; the entry passed to the
\* closure is the cache's entry when the operation is applied.
C16_AgreesAtMutation ==
    /\ [](\A t \in Threads : pc[t] = "tc_eval" => entry[t].maybe_entry = cache[arg[t].key])
    /\ [][C16_TagMatchesCache]_vars

\* Inserted / Updated against the entry the call read (entry_existed).
C16_TagMatchesEntryRead ==
    \A t \in Threads :
        C16_Applies(t) =>
            /\ result'[t].r = "Inserted" => entry[t].maybe_entry = NoValue
            /\ result'[t].r = "Updated" => entry[t].maybe_entry # NoValue

\* While the closure runs the cache's entry differs from the entry read only
\* by a value that a try_init_or_read call on the key has inserted meanwhile.
C16_OnlyInitIntervenes ==
    \A t \in Threads :
        (pc[t] = "tc_eval" /\ entry[t].maybe_entry # cache[arg[t].key]) =>
            \E u \in Threads :
                /\ arg[u].type_id \in InitTypeIds /\ arg[u].key = arg[t].key
                /\ result[u] = Initialized(cache[arg[t].key])

\* C16 amended: Inserted means the key had no entry when the call read it
\* (get_entry) and Updated means it had one; the entry passed to the closure
\* is still the cache's entry when the operation is applied unless a
\* try_init_or_read call on the key inserted a value in between (initializer
\* calls and try_compute calls do not exclude one another).
C16_AgreesAtRead ==
    /\ []C16_OnlyInitIntervenes
    /\ [][C16_TagMatchesEntryRead]_vars

\* A try_compute call read no entry and is inside its closure; an initializer
\* call has meanwhile inserted a value for the key, which the cache now holds.
C16_Witness ==
    \E t \in Threads, u \in Threads :
        /\ pc[t] = "tc_eval" /\ entry[t].maybe_entry = NoValue
        /\ arg[u].type_id \in InitTypeIds /\ arg[u].key = arg[t].key
        /\ cache[arg[t].key] # NoValue /\ result[u] = Initialized(cache[arg[t].key])


\* ----------------------------------------------------------------------- C17
\* the step decides what t's call returns
C17_Decides(t) == result[t] = NoResult /\ result'[t] # NoResult

\* outcomes that come with no cache mutation: an error from post_init, a panic
\* (the closure's or the call's own), a value read from a waiter or by the
\* owner's re-check, Nop
C17_NoMutationOutcome(r) ==
    \/ r.r \in {"InitErr", "EvalErr", "ReadExisting", "Nop"}
    \/ r \in {ClosurePanic, TooManyRetries, UnexpectedState}

\* A call that fails, follows or re-reads leaves the cache as it was; a call
\* that returns Initialized(v) has inserted v in the same step.
C17_PerOutcome ==
    \A t \in Threads :
        C17_Decides(t) =>
            /\ C17_NoMutationOutcome(result'[t]) => cache' = cache
            /\ result'[t].r = "Initialized" =>
                   cache' = [cache EXCEPT ![arg[t].key] = result'[t].v]

\* The cache changes only in the step that decides a call's successful
\* outcome (never in a step that decides nothing), and a call's outcome is
\* decided once.
C17_OnlyOnSuccess ==
    /\ cache' # cache =>
           \E t \in Threads :
               /\ C17_Decides(t)
               /\ result'[t].r \in {"Initialized", "Inserted", "Updated", "Removed"}
    /\ \A t \in Threads : result[t] # NoResult => result'[t] = result[t]

\* C17: a call whose post_init gives an error (InitErr, EvalErr) or whose
\* closure panics performs no cache mutation, and neither does a
\* try_init_or_read follower or an owner whose re-check found a value; insert
\* is called exactly once per call that returns Initialized, with the value
\* returned.
C17_FailureLeavesCache ==
    [][IF result' = result THEN cache' = cache
                           ELSE C17_PerOutcome /\ C17_OnlyOnSuccess]_vars

\* One call ended with its own InitErr and another with EvalErr; the cache is
\* as it was before the calls.
C17_Witness ==
    \E t \in Threads, u \in Threads :
        /\ Ended(t) /\ result[t].r = "InitErr" /\ result[t].by = t
        /\ Ended(u) /\ result[u].r = "EvalErr"
        /\ cache = cache0


\* ----------------------------------------------------------------------- C18
\* Terminal state, then removal, then release: the entry is removed with the
\* waiter terminal and the lock still held; the lock of a registered waiter is
\* released with the waiter terminal and its entry gone (a lock released on a
\* waiter still Computing is that of a follower, whose waiter was never
\* registered).
C18_Order ==
    \A t \in Threads :
        /\ (HasEntry(t) /\ ~HasEntry(t)') =>
               (slot[t].st \in Terminal /\ slot'[t] = slot[t] /\ wlock[t] /\ wlock'[t])
        /\ (wlock[t] /\ ~wlock'[t]) =>
               /\ ~HasEntry(t) /\ slot'[t] = slot[t]
               /\ slot[t].st \in Terminal \/ IsWaiting(t)

\* A waiter changes state once, from Computing to a terminal state.
C18_OneChange ==
    \A t \in Threads :
        slot'[t] # slot[t] => (slot[t] = Computing /\ slot'[t].st \in Terminal)

\* A follower that registers again never meets the waiter it has just read.
C18_NeverSameWaiter ==
    \A f \in Threads :
        (pc[f] \in {"ir_insert", "tc_insert"} /\ IsWaiting(f)') =>
            existing'[f].owner # existing[f].owner

\* A waiter whose shared lock a follower can take is terminal and is no longer
\* in the registry.
C18_ReadableIsGone ==
    \A f \in Threads :
        (IsWaiting(f) /\ CanRead(existing[f])) =>
            /\ WaiterValueOf(existing[f]).st \in Terminal
            /\ ~HasEntry(existing[f].owner)

\* C18: an owner writes its waiter's terminal state, then removes the registry
\* entry, and only then releases the write lock; so a waiter a follower can
\* read is terminal and no longer registered, each waiter changes state once,
\* and a follower that retries never finds the same waiter again.
C18_LifeCycleOrder ==
    /\ []C18_ReadableIsGone
    /\ [][C18_Order /\ C18_OneChange /\ C18_NeverSameWaiter]_vars

\* A follower read a panicked waiter after its owner had removed it and let
\* go of the lock, retried, did not find that waiter again and registered its
\* own.
C18_Witness ==
    \E f \in Threads :
        /\ pc[f] = "ir_get" /\ retries[f] = 1
        /\ existing[f].released /\ existing[f].val = InitClosurePanicked
        /\ ~HasEntry(existing[f].owner) /\ ~wlock[existing[f].owner]
        /\ waiters = {WEntry(WKeyOf(f), f)}


\* ----------------------------------------------------------------------- C19
\* The states a waiter created by each call can hold.
ComputeStates == {"Computing", "ReadyNone", "InitClosurePanicked"}
InitStates == {"Computing", "ReadyOk", "ReadyErr", "InitClosurePanicked"}

\* C19: a waiter of try_compute only ever holds Computing, ReadyNone or
\* InitClosurePanicked, a waiter of try_init_or_read only ever Computing,
\* Ready(Ok), Ready(Err) or InitClosurePanicked; a try_init_or_read follower
\* never reads ReadyNone (nor Computing), so no call ends in the 'unexpected
\* state' panic.
C19_StatesPerFamily ==
    /\ \A t \in Threads :
           /\ arg[t].type_id = type_id_ComputeNone => slot[t].st \in ComputeStates
           /\ arg[t].type_id \in InitTypeIds => slot[t].st \in InitStates
    /\ \A f \in Threads :
           existing[f].owner # NoWaiter =>
               /\ arg[f].type_id = type_id_ComputeNone =>
                      WaiterValueOf(existing[f]).st \in ComputeStates
               /\ arg[f].type_id \in InitTypeIds =>
                      WaiterValueOf(existing[f]).st \in InitStates
    /\ \A t \in Threads : result[t] # UnexpectedState

\* A try_compute follower can read the waiter of a try_compute owner whose
\* operation has been applied: it holds ReadyNone.
C19_Witness ==
    \E f \in Threads, u \in Threads :
        /\ pc[f] = "tc_read" /\ CanRead(existing[f])
        /\ WaiterValueOf(existing[f]) = ReadyNone
        /\ arg[u].type_id = type_id_ComputeNone /\ existing[f].owner = u
        /\ result[u].r \in {"Inserted", "Updated", "Removed", "Nop", "EvalErr"}

====
